---- MODULE Spec2Model ----
(***************************************************************************)
(* Model of mxlpy.identify.profile_likelihood (src/src/mxlpy/identify.py)  *)
(* and mxlpy.surrogates._poly.train_polynomial                             *)
(* (src/src/mxlpy/surrogates/_poly.py).                                    *)
(*                                                                         *)
(* profile_likelihood is modelled statement by statement, with the         *)
(* parallel fan-out of one candidate value as interleaved JobRun steps.    *)
(* Floating point numbers are modelled as exact rationals [num, den];      *)
(* NaN is the record with den = 0.                                         *)
(***************************************************************************)
EXTENDS Integers, Sequences, FiniteSets, TLC

\* ------------------------------------------------------------------ bounds
MaxValues == 2      \* longest parameter_values sequence
MaxCandidate == 2   \* candidate values are 1..MaxCandidate
MaxN == 2           \* largest n_random
MaxSeed == 2        \* states of the random source seen by sample()
MaxResidual == 2    \* largest residual a fit job returns
MaxDegrees == 3     \* longest degrees sequence
MaxDegree == 3      \* degrees are 1..MaxDegree
MaxSSE == 3         \* largest sum of squared errors of a fit
MaxPoints == 4      \* most data points in feature/target

\* ------------------------------------------------------------ input domains
ParamNames == {"k1", "k2"}
\* the parameter names a caller may ask for: the model's and one it lacks
RequestNames == ParamNames \cup {"kx"}
CandidateVals == 1..MaxCandidate
InitialParams == [k \in ParamNames |-> MaxCandidate + 1]
Residuals == {-1, MaxResidual}
Seeds == 1..MaxSeed

RECURSIVE SeqsUpTo(_, _)
SeqsUpTo(S, n) ==
  IF n = 0 THEN {<< >>}
  ELSE LET shorter == SeqsUpTo(S, n - 1)
       IN shorter \cup {Append(s, x) : s \in {t \in shorter : Len(t) = n - 1}, x \in S}

\* ---------------------------------------------------------------- numbers
RECURSIVE GCD(_, _)
GCD(a, b) == IF b = 0 THEN a ELSE GCD(b, a % b)

AbsInt(x) == IF x < 0 THEN -x ELSE x

NaN == [num |-> 0, den |-> 0]

\* the rational n/d, d > 0, in lowest terms
Frac(n, d) ==
  LET g == GCD(AbsInt(n), d)
  IN [num |-> n \div g, den |-> d \div g]

RECURSIVE SumSeq(_)
SumSeq(s) == IF s = << >> THEN 0 ELSE s[1] + SumSeq(Tail(s))

\* Series.mean / DataFrame.mean(axis=1) of one row: NaN for a row without cells
RowMean(row) == IF Len(row) = 0 THEN NaN ELSE Frac(SumSeq(row), Len(row))

\* DataFrame.abs() of one row
RowAbs(row) == [i \in DOMAIN row |-> AbsInt(row[i])]

\* a mutant of RowMeanAbs: the absolute value of the mean
RowAbsMean(row) ==
  IF Len(row) = 0 THEN NaN ELSE Frac(AbsInt(SumSeq(row)), Len(row))

\* a mutant of RowMeanAbs: the first draw's absolute residual, no averaging
RowFirstAbs(row) ==
  IF Len(row) = 0 THEN NaN ELSE Frac(AbsInt(row[1]), 1)

\* .abs().mean(axis=1) of one row of the transposed frame (identify.py:66)
RowMeanAbs(row) == RowMean(RowAbs(row))

\* ------------------------------------------------------------- collaborators
\* one draw of the random source for row i
Draw(seed, i) == seed + i - 1

\* sample(distributions, n): n rows, one column per key of the mapping
SampleTable(keys, n, seed) ==
  [columns |-> keys,
   rows |-> [i \in 1..n |-> [k \in keys |-> Draw(seed, i)]]]

\* DataFrame.drop(columns=name) for a column the frame has
DropColumn(df, name) ==
  [columns |-> df.columns \ {name},
   rows |-> [i \in DOMAIN df.rows |->
               [k \in df.columns \ {name} |-> df.rows[i][k]]]]

\* list(df.iterrows()) : the rows, in order
IterRows(df) == df.rows

\* res[key] = val on a dict kept in insertion order
DictSet(d, key, val) ==
  IF \E i \in DOMAIN d : d[i].key = key
  THEN [i \in DOMAIN d |-> IF d[i].key = key THEN [key |-> key, val |-> val] ELSE d[i]]
  ELSE Append(d, [key |-> key, val |-> val])

\* the residuals of a finished fan-out as a list in input order
ResultList(r, n) == [i \in 1..n |-> r[i]]

\* ------------------------------------------------------------------- state
VARIABLES
  pc,                      \* position of profile_likelihood
  err,                     \* the exception it ended in, "none" otherwise
  model,                   \* model.parameters
  parameter_name, parameter_values, n_random,   \* the arguments
  parameter_distributions, \* the sample set (identify.py:51)
  sampleCalls,             \* calls of sample() so far
  idx,                     \* outer iterations started
  inputs,                  \* inputs of the running parallelise call
  pending,                 \* jobs of that call that have not returned
  jobIter,                 \* the outer iteration the jobs were dispatched in
  results,                 \* residuals returned so far, by job
  completed,               \* jobs of the running call in completion order
  res,                     \* the dict res (identify.py:56)
  errors,                  \* the returned series
  fitCalls,                \* calls of _mc_fit_time_course_worker so far
  dispatched,              \* history: one record per parallelise call
  observed,                \* history: what each job saw of the model
  joined,                  \* history: results held when each call returned
  polyPc, degrees, fitSSE, nPoints, polyModel, polyTable

profileVars ==
  <<pc, err, model, parameter_name, parameter_values, n_random,
    parameter_distributions, sampleCalls, idx, inputs, pending, jobIter,
    results, completed, res, errors, fitCalls, dispatched, observed, joined>>
polyVars == <<polyPc, degrees, fitSSE, nPoints, polyModel, polyTable>>
vars == <<profileVars, polyVars>>

EmptyFrame == [columns |-> {}, rows |-> << >>]

ProfileLocals ==
  /\ err = "none"
  /\ model = InitialParams
  /\ parameter_distributions = EmptyFrame
  /\ sampleCalls = 0
  /\ idx = 0
  /\ inputs = << >>
  /\ pending = {}
  /\ jobIter = 0
  /\ results = << >>
  /\ completed = << >>
  /\ res = << >>
  /\ errors = << >>
  /\ fitCalls = 0
  /\ dispatched = << >>
  /\ observed = {}
  /\ joined = << >>

\* a call profile_likelihood(model, data, parameter_name, parameter_values, n_random)
ProfileInit ==
  /\ pc = "start"
  /\ parameter_name \in RequestNames
  /\ parameter_values \in SeqsUpTo(CandidateVals, MaxValues)
  /\ n_random \in 0..MaxN
  /\ ProfileLocals

ProfileIdle ==
  /\ pc = "idle"
  /\ parameter_name = "k1"
  /\ parameter_values = << >>
  /\ n_random = 0
  /\ ProfileLocals

PolyIdle ==
  /\ polyPc = "idle"
  /\ degrees = << >>
  /\ fitSSE = << >>
  /\ nPoints = 1
  /\ polyModel = << >>
  /\ polyTable = << >>

\* ------------------------------------------------------- profile_likelihood
\* identify.py:51-56: the sample set is drawn, res = {}
Sample ==
  /\ pc = "start"
  /\ \E seed \in Seeds :
       parameter_distributions' = SampleTable(DOMAIN model, n_random, seed)
  /\ sampleCalls' = sampleCalls + 1
  /\ res' = << >>
  /\ pc' = "loop"
  /\ UNCHANGED polyVars
  /\ UNCHANGED <<err, model, parameter_name, parameter_values, n_random, idx,
                 inputs, pending, jobIter, results, completed, errors, fitCalls,
                 dispatched, observed, joined>>

\* a mutant of ForNext: the next candidate is taken while jobs are still out
ForNextNoBarrier ==
  /\ pc \in {"loop", "running"}
  /\ idx < Len(parameter_values)
  /\ parameter_name \in DOMAIN model
  /\ idx' = idx + 1
  /\ model' = [model EXCEPT ![parameter_name] = parameter_values[idx + 1]]
  /\ pc' = "dispatch"
  /\ UNCHANGED polyVars
  /\ UNCHANGED <<err, parameter_name, parameter_values, n_random,
                 parameter_distributions, sampleCalls, inputs, pending, jobIter,
                 results, completed, res, errors, fitCalls, dispatched, observed,
                 joined>>

\* identify.py:57-58: the next candidate value, model.update_parameter(name, value)
ForNext ==
  /\ pc = "loop"
  /\ idx < Len(parameter_values)
  /\ parameter_name \in DOMAIN model
  /\ idx' = idx + 1
  /\ model' = [model EXCEPT ![parameter_name] = parameter_values[idx + 1]]
  /\ pc' = "dispatch"
  /\ UNCHANGED polyVars
  /\ UNCHANGED <<err, parameter_name, parameter_values, n_random,
                 parameter_distributions, sampleCalls, inputs, pending, jobIter,
                 results, completed, res, errors, fitCalls, dispatched, observed,
                 joined>>

\* identify.py:58 for a name the model lacks. Model.update_parameter is not
\* part of the sources: it either raises KeyError or stores the new name.
ForNextUnknown ==
  /\ pc = "loop"
  /\ idx < Len(parameter_values)
  /\ parameter_name \notin DOMAIN model
  /\ idx' = idx + 1
  /\ \/ /\ err' = "KeyError"
        /\ pc' = "raised"
        /\ model' = model
     \/ /\ err' = err
        /\ pc' = "dispatch"
        /\ model' = (parameter_name :> parameter_values[idx + 1]) @@ model
  /\ UNCHANGED polyVars
  /\ UNCHANGED <<parameter_name, parameter_values, n_random,
                 parameter_distributions, sampleCalls, inputs, pending, jobIter,
                 results, completed, res, errors, fitCalls, dispatched, observed,
                 joined>>

\* a mutant of Dispatch: the profiled parameter's column is not dropped
DispatchNoDrop ==
  /\ pc = "dispatch"
  /\ parameter_name \in parameter_distributions.columns
  /\ inputs' = IterRows(parameter_distributions)
  /\ pending' = DOMAIN inputs'
  /\ jobIter' = idx
  /\ results' = << >>
  /\ completed' = << >>
  /\ dispatched' = Append(dispatched,
       [value |-> parameter_values[idx], inputs |-> inputs',
        names |-> DOMAIN model, sampleCalls |-> sampleCalls])
  /\ pc' = "running"
  /\ UNCHANGED polyVars
  /\ UNCHANGED <<err, model, parameter_name, parameter_values, n_random,
                 parameter_distributions, sampleCalls, idx, res, errors, fitCalls,
                 observed, joined>>

\* a mutant of Dispatch: the sample set is drawn anew for every candidate value
DispatchResample ==
  /\ pc = "dispatch"
  /\ parameter_name \in parameter_distributions.columns
  /\ \E seed \in Seeds :
       parameter_distributions' = SampleTable(DOMAIN model, n_random, seed)
  /\ sampleCalls' = sampleCalls + 1
  /\ inputs' = IterRows(DropColumn(parameter_distributions', parameter_name))
  /\ pending' = DOMAIN inputs'
  /\ jobIter' = idx
  /\ results' = << >>
  /\ completed' = << >>
  /\ dispatched' = Append(dispatched,
       [value |-> parameter_values[idx], inputs |-> inputs',
        names |-> DOMAIN model, sampleCalls |-> sampleCalls'])
  /\ pc' = "running"
  /\ UNCHANGED polyVars
  /\ UNCHANGED <<err, model, parameter_name, parameter_values, n_random, idx,
                 res, errors, fitCalls, observed, joined>>

\* identify.py:59-65: the inputs are built and handed to parallelise
Dispatch ==
  /\ pc = "dispatch"
  /\ parameter_name \in parameter_distributions.columns
  /\ inputs' = IterRows(DropColumn(parameter_distributions, parameter_name))
  /\ pending' = DOMAIN inputs'
  /\ jobIter' = idx
  /\ results' = << >>
  /\ completed' = << >>
  /\ dispatched' = Append(dispatched,
       [value |-> parameter_values[idx], inputs |-> inputs',
        names |-> DOMAIN model, sampleCalls |-> sampleCalls])
  /\ pc' = "running"
  /\ UNCHANGED polyVars
  /\ UNCHANGED <<err, model, parameter_name, parameter_values, n_random,
                 parameter_distributions, sampleCalls, idx, res, errors, fitCalls,
                 observed, joined>>

\* identify.py:62: drop(columns=parameter_name) of a column the frame lacks
DispatchKeyError ==
  /\ pc = "dispatch"
  /\ parameter_name \notin parameter_distributions.columns
  /\ err' = "KeyError"
  /\ pc' = "raised"
  /\ UNCHANGED polyVars
  /\ UNCHANGED <<model, parameter_name, parameter_values, n_random,
                 parameter_distributions, sampleCalls, idx, inputs, pending,
                 jobIter, results, completed, res, errors, fitCalls, dispatched,
                 observed, joined>>

\* identify.py:18-31: one job of the fan-out fits and returns its residual
JobRun ==
  /\ \E i \in pending, r \in Residuals :
       /\ pending' = pending \ {i}
       /\ results' = (i :> r) @@ results
       /\ completed' = Append(completed, i)
       /\ observed' = observed \cup
            {[iter |-> jobIter, seen |-> model[parameter_name]]}
  /\ fitCalls' = fitCalls + 1
  /\ UNCHANGED polyVars
  /\ UNCHANGED <<pc, err, model, parameter_name, parameter_values, n_random,
                 parameter_distributions, sampleCalls, idx, inputs, jobIter, res,
                 errors, dispatched, joined>>

\* identify.py:59: parallelise returns, res[value] = its results
Join ==
  /\ pc = "running"
  /\ pending = {}
  /\ res' = DictSet(res, parameter_values[idx], ResultList(results, Len(inputs)))
  /\ joined' = Append(joined, Cardinality(DOMAIN results))
  /\ pc' = "loop"
  /\ UNCHANGED polyVars
  /\ UNCHANGED <<err, model, parameter_name, parameter_values, n_random,
                 parameter_distributions, sampleCalls, idx, inputs, pending,
                 jobIter, results, completed, errors, fitCalls, dispatched,
                 observed>>

\* a mutant of Return: the parameter's value from before the call is restored
ReturnRestore ==
  /\ pc = "loop"
  /\ idx = Len(parameter_values)
  /\ errors' = [j \in DOMAIN res |-> [key |-> res[j].key, val |-> RowMeanAbs(res[j].val)]]
  /\ model' = InitialParams
  /\ pc' = "returned"
  /\ UNCHANGED polyVars
  /\ UNCHANGED <<err, parameter_name, parameter_values, n_random,
                 parameter_distributions, sampleCalls, idx, inputs, pending,
                 jobIter, results, completed, res, fitCalls, dispatched, observed,
                 joined>>

\* identify.py:66-68: the loop is over, the residuals are reduced and returned
Return ==
  /\ pc = "loop"
  /\ idx = Len(parameter_values)
  /\ errors' = [j \in DOMAIN res |-> [key |-> res[j].key, val |-> RowMeanAbs(res[j].val)]]
  /\ pc' = "returned"
  /\ UNCHANGED polyVars
  /\ UNCHANGED <<err, model, parameter_name, parameter_values, n_random,
                 parameter_distributions, sampleCalls, idx, inputs, pending,
                 jobIter, results, completed, res, fitCalls, dispatched, observed,
                 joined>>

Next ==
  \/ Sample
  \/ ForNext
  \/ ForNextUnknown
  \/ Dispatch
  \/ DispatchKeyError
  \/ JobRun
  \/ Join
  \/ Return

\* --------------------------------------------------------- train_polynomial
\* The least-squares fit is numpy's: a fit is known by its degree and by the
\* sum of squared errors it leaves. A larger degree never leaves more error,
\* and a degree of at least nPoints - 1 interpolates the data.
FitErrors ==
  {f \in [1..MaxDegree -> 0..MaxSSE] :
     \A d \in 1..MaxDegree : d < MaxDegree => f[d + 1] <= f[d]}

PolyInit ==
  /\ polyPc = "start"
  /\ degrees \in SeqsUpTo(1..MaxDegree, MaxDegrees)
  /\ nPoints \in 1..MaxPoints
  /\ fitSSE \in {f \in FitErrors : \A d \in 1..MaxDegree : d + 1 >= nPoints => f[d] = 0}
  /\ polyModel = << >>
  /\ polyTable = << >>

\* _poly.py:77: fn_series.fit(feature, target, degree), the j-th model built
FitModel(j, degree, sse) == [id |-> j, degree |-> degree, sse |-> sse]

\* _poly.py:78-79: mean(square(prediction - target)), the radicand of the
\* root-mean-square error (the root itself is monotone in it)
MeanSquare(sse, n) == Frac(sse, n)

\* _poly.py:80-82: -0.5 * sum(square(prediction - target))
LogLikelihood(sse) == Frac(0 - sse, 2)

\* a mutant of Score: the degree penalty is left out
ScoreNoPenalty(degree, ll) == Frac(0 - 2 * ll.num, ll.den)

\* _poly.py:83: 2 * degree - 2 * log_likelihood
Score(degree, ll) == Frac(2 * degree * ll.den - 2 * ll.num, ll.den)

FracLess(a, b) == a.num * b.den < b.num * a.den

\* np.argmin: the first index holding the least value
ArgMin(s) ==
  CHOOSE i \in DOMAIN s :
    /\ \A j \in DOMAIN s : ~FracLess(s[j], s[i])
    /\ \A j \in DOMAIN s : j < i => FracLess(s[i], s[j])

\* _poly.py:77-100 for a non-empty degrees
TrainPolynomial ==
  /\ polyPc = "start"
  /\ degrees # << >>
  /\ LET models == [j \in DOMAIN degrees |-> FitModel(j, degrees[j], fitSSE[degrees[j]])]
         error == [j \in DOMAIN degrees |-> MeanSquare(models[j].sse, nPoints)]
         log_likelihood == [j \in DOMAIN degrees |-> LogLikelihood(models[j].sse)]
         score == [j \in DOMAIN degrees |-> Score(degrees[j], log_likelihood[j])]
     IN /\ polyModel' = models[ArgMin(score)]
        /\ polyTable' = [j \in DOMAIN degrees |->
             [degree |-> degrees[j], models |-> models[j],
              error |-> error[j], score |-> score[j]]]
  /\ polyPc' = "returned"
  /\ UNCHANGED profileVars
  /\ UNCHANGED <<degrees, fitSSE, nPoints>>

\* _poly.py:86 for an empty degrees: np.argmin of an empty array raises
TrainPolynomialEmpty ==
  /\ polyPc = "start"
  /\ degrees = << >>
  /\ polyPc' = "raised"
  /\ UNCHANGED profileVars
  /\ UNCHANGED <<degrees, fitSSE, nPoints, polyModel, polyTable>>


InitPoly == PolyInit /\ ProfileIdle
NextPoly == TrainPolynomial \/ TrainPolynomialEmpty
SpecPoly == InitPoly /\ [][NextPoly]_vars

Init == ProfileInit /\ PolyIdle
Spec == Init /\ [][Next]_vars

\* ------------------------------------------------------------------ claims
Index(series) == [j \in DOMAIN series |-> series[j].key]

Reverse(s) == [j \in DOMAIN s |-> s[Len(s) + 1 - j]]

RECURSIVE SumOfAbs(_)
SumOfAbs(s) ==
  IF s = << >> THEN 0
  ELSE (IF s[1] < 0 THEN 0 - s[1] ELSE s[1]) + SumOfAbs(Tail(s))

\* C1: after a normal return for a non-empty parameter_values, the index of
\* the returned series equals parameter_values element for element (same
\* length, same order, duplicates kept).
C1_IndexEqualsValues ==
  (pc = "returned" /\ Len(parameter_values) > 0) =>
    Index(errors) = parameter_values

\* C2: a call with n_random <= 0 (and a parameter the model has) never returns
\* normally; it ends in InvalidArgument with no fit job run.
C2_InvalidArgumentRaised ==
  (n_random <= 0 /\ parameter_name \in DOMAIN InitialParams) =>
    /\ pc # "returned"
    /\ pc = "raised" => (err = "InvalidArgument" /\ fitCalls = 0)

\* C3: a call with a parameter_name the model lacks never returns normally; it
\* ends in UnknownParameter before the sample set is drawn, before the model
\* is changed and before any fit job has run.
C3_UnknownParameterRaised ==
  parameter_name \notin DOMAIN InitialParams =>
    /\ pc # "returned"
    /\ pc = "raised" =>
         /\ err = "UnknownParameter"
         /\ sampleCalls = 0
         /\ model = InitialParams
         /\ fitCalls = 0

C5_BarrierBeforeNextCandidate ==
  /\ \A o \in observed : o.seen = parameter_values[o.iter]
  /\ pending # {} =>
       (jobIter = idx /\ model[parameter_name] = parameter_values[idx])
  /\ \A k \in DOMAIN dispatched : dispatched[k].value = parameter_values[k]
  /\ \A k \in DOMAIN joined : joined[k] = n_random
  /\ pc \in {"dispatch", "running"} => Len(joined) = idx - 1
  /\ Len(dispatched) <= idx

C5_Witness ==
  /\ pc = "running"
  /\ idx = 2
  /\ parameter_values[1] # parameter_values[2]
  /\ Cardinality(pending) = 1
  /\ \E o \in observed : o.iter = 2

\* C6: after a normal return for a non-empty parameter_values the model's
\* parameter_name holds the last element of parameter_values.
C6_LastCandidateLeftInModel ==
  (pc = "returned" /\ Len(parameter_values) > 0) =>
    model[parameter_name] = parameter_values[Len(parameter_values)]

C6_Witness ==
  /\ pc = "returned"
  /\ Len(parameter_values) >= 2
  /\ model[parameter_name] # InitialParams[parameter_name]
  /\ model[parameter_name] # parameter_values[1]

\* C7: every fan-out gets exactly n_random initial guesses, one job each, and
\* the keys of each guess are the model's parameter names minus parameter_name.
C7_InputsShape ==
  /\ \A k \in DOMAIN dispatched :
       /\ Len(dispatched[k].inputs) = n_random
       /\ \A i \in DOMAIN dispatched[k].inputs :
            /\ DOMAIN dispatched[k].inputs[i] =
                 dispatched[k].names \ {parameter_name}
            /\ parameter_name \notin DOMAIN dispatched[k].inputs[i]
  /\ pc = "running" =>
       (pending \cup DOMAIN results = 1..n_random
        /\ pending \cap DOMAIN results = {})
  /\ fitCalls <= n_random * Len(dispatched)

C7_Witness ==
  /\ pc = "running"
  /\ Len(dispatched) >= 2
  /\ n_random >= 2
  /\ pending = {}

\* C8: every returned value is the mean of the absolute values of the
\* n_random residuals held for its candidate value (the absolute value is
\* taken per residual), NaN when there are no draws, and never negative.
C8_MeanOfAbsoluteResiduals ==
  pc = "returned" =>
    \A j \in DOMAIN errors :
      /\ errors[j].key = res[j].key
      /\ Len(res[j].val) = n_random
      /\ IF n_random = 0
         THEN errors[j].val = NaN
         ELSE /\ errors[j].val.den > 0
              /\ errors[j].val.num >= 0
              /\ errors[j].val.num * n_random =
                   errors[j].val.den * SumOfAbs(res[j].val)

C8_Witness ==
  /\ pc = "returned"
  /\ \E j \in DOMAIN errors :
       /\ Len(res[j].val) >= 2
       /\ res[j].val[1] < 0
       /\ res[j].val[2] > 0

\* C9: the reduction of one candidate's residuals does not depend on the
\* order the jobs ran or returned in: reduced in completion order, or in
\* reverse order, they give the value the call holds and returns.
C9_ReductionOrderIndependent ==
  (pc \in {"loop", "returned"} /\ idx >= 1) =>
    LET row == ResultList(results, Len(inputs))
        byCompletion == [j \in DOMAIN completed |-> results[completed[j]]]
    IN /\ Len(completed) = n_random
       /\ RowMeanAbs(byCompletion) = RowMeanAbs(row)
       /\ RowMeanAbs(Reverse(row)) = RowMeanAbs(row)
       /\ \E j \in DOMAIN res :
            /\ res[j].key = parameter_values[idx]
            /\ res[j].val = row
            /\ pc = "returned" => errors[j].val = RowMeanAbs(byCompletion)

C9_Witness ==
  /\ pc = "returned"
  /\ completed = <<2, 1>>
  /\ AbsInt(results[1]) # AbsInt(results[2])

\* C10: train_polynomial returns the model of the first degree, in input
\* order, whose score 2*degree + SSE is least, whatever the errors of the
\* other degrees; the table has one row per requested degree, in input order,
\* holding that degree, its model, its error and its score.
C10_LowestScoreSelected ==
  polyPc = "returned" =>
    LET sc(j) == 2 * degrees[j] + fitSSE[degrees[j]]
    IN /\ \E i \in DOMAIN degrees :
            /\ polyModel = [id |-> i, degree |-> degrees[i], sse |-> fitSSE[degrees[i]]]
            /\ \A j \in DOMAIN degrees : sc(i) <= sc(j)
            /\ \A j \in DOMAIN degrees : j < i => sc(j) > sc(i)
       /\ Len(polyTable) = Len(degrees)
       /\ \A j \in DOMAIN degrees :
            /\ polyTable[j].degree = degrees[j]
            /\ polyTable[j].models =
                 [id |-> j, degree |-> degrees[j], sse |-> fitSSE[degrees[j]]]
            /\ polyTable[j].score = [num |-> sc(j), den |-> 1]
            /\ polyTable[j].error.num * nPoints =
                 polyTable[j].error.den * fitSSE[degrees[j]]
            /\ polyTable[j].error.den > 0

C10_Witness ==
  /\ polyPc = "returned"
  /\ \E j \in DOMAIN degrees : fitSSE[degrees[j]] < polyModel.sse
  /\ \E j \in DOMAIN degrees :
       /\ j > polyModel.id
       /\ degrees[j] # polyModel.degree
       /\ polyTable[j].score = polyTable[polyModel.id].score

====
